---- MODULE Spec2Model ----
(***************************************************************************)
(* Model of quantum/audio/audio.c: the tone stack, the melody sequencer    *)
(* and the periodic state tick of the keyboard firmware's audio core.      *)
(*                                                                         *)
(* Each C function is an operator from a record of the program's globals   *)
(* to the record after the call, so that nested calls (audio_advance_state *)
(* calling audio_play_tone, audio_stop_tone, audio_stop_all; every entry   *)
(* point calling audio_init lazily) compose as in the source.  An action   *)
(* of the state machine is one call of a public function.                  *)
(*                                                                         *)
(* Frequencies are floats in the source; the model uses small integers     *)
(* for them (only ==, != and the sign test are applied to them).  The      *)
(* sentinel -1.0f of an unused slot is the integer -1.                     *)
(* note_length is a float; the model keeps it in quarters of a unit        *)
(* (note_length = 4 * (duration * 60 / tempo)), which is exact for the     *)
(* tempi and durations the model uses.                                     *)
(***************************************************************************)
EXTENDS Integers, Sequences, FiniteSets, TLC

\* ------------------------------------------------------------- constants
AUDIO_TONE_STACKSIZE == 8

TEMPO_DEFAULT == 120

AUDIO_MAX_SIMULTANEOUS_TONES == 3

\* ---------------------------------------------------------------- bounds
\* user tones are the frequencies 0 .. MaxTone (0 is silence, a rest)
MaxTone == 2

\* the largest step (elapsed time) a tick is called with
MaxStep == 2

\* a tick arrives at most this long after the end of the note (with steps longer
\* than the notes the overshoot carried from note to note grows without bound)
MaxOvershoot == 1

\* the largest value timer_read() returns in a tick
MaxTimer == 5

\* the largest tone multiplexing rate
MaxRate == 2

\* the largest step of a timer that ticks with one step throughout
MaxTickStep == 5

Tones == 0..MaxTone

\* arguments of play_tone/stop_tone: callers may pass a negated frequency
ToneArgs == (-1)..MaxTone

Steps == 1..MaxStep

\* the steps of timers that tick with one step throughout
TickSteps == 1..MaxTickStep

\* what timer_read() returns
Timers == 0..MaxTimer

\* tone multiplexing rates (a float in the source); 0 is "disabled"
Rates == 0..MaxRate

\* the conversion (int)x of an infinity or a NaN is undefined: 0, INT_MAX, INT_MIN
UndefinedInt == {0, 2147483647, -2147483647 - 1}

\* the end fraction of a tick, in quarters: 4 is 1.0f
Ends == {4}

\* arguments of audio_set_tempo
TempoArgs == {60, 120}
\* uint8_t arguments of the tempo functions
TempoBytes == {0, 1, 7, 9, 10, 11, 100, 128, 135, 136, 200, 245, 246, 254, 255}

\* the melodies callers own: arrays of {frequency, duration}
SameSong == << <<1, 4>>, <<1, 4>> >>

TwoSong == << <<1, 4>>, <<2, 4>> >>

RestSong == << <<2, 4>>, <<0, 4>> >>

RestFirstSong == << <<0, 4>>, <<1, 4>>, <<1, 4>> >>

Songs == << SameSong, TwoSong, RestSong, RestFirstSong >>

startup_song == 2

NULL == 0

UINT8 == 2^8

UINT16 == 2^16

\* ----------------------------------------------------------------- state
VARIABLES
    audio_initialized,   \* static bool audio_initialized
    enable,              \* audio_config.enable
    eeconfig_audio,      \* the persisted enable bit (eeconfig_read_audio)
    active_tones,        \* uint8_t, number of tones on the stack
    frequencies,         \* float[AUDIO_TONE_STACKSIZE]; C index i is i + 1 here
    playing_melody,
    playing_note,
    state_changed,
    notes_pointer,       \* index into Songs, NULL when never set
    notes_count,
    notes_repeat,
    note_length,         \* in quarters of a unit
    note_tempo,
    current_note,        \* C index into the melody
    note_position,
    note_resting,
    driver_calls,        \* the driver calls made by the last operation, in order
    driver_last,         \* the last driver call ever made
    ret,                 \* what the last audio_advance_state returned
    multiplexing,        \* built with AUDIO_ENABLE_TONE_MULTIPLEXING
    tone_multiplexing_rate,
    tone_multiplexing_index_shift,   \* uint8_t
    call,                \* the last operation and its arguments
    pre,                 \* what the last operation found when it was called
    stopwatch            \* the time the ticks have passed to the melody playing

progvars == << audio_initialized, enable, eeconfig_audio, active_tones, frequencies,
               playing_melody, playing_note, state_changed, notes_pointer, notes_count,
               notes_repeat, note_length, note_tempo, current_note, note_position,
               note_resting, driver_calls, driver_last, ret, multiplexing,
               tone_multiplexing_rate, tone_multiplexing_index_shift >>

vars == << progvars, call, pre, stopwatch >>

\* ------------------------------------------------------------- helpers
Abs(x) == IF x < 0 THEN -x ELSE x

Min(a, b) == IF a < b THEN a ELSE b

\* the % of C: the remainder has the sign of the dividend
Remainder(a, m) == IF a >= 0 THEN a % m ELSE -((m - (a % m)) % m)

\* conversion to int8_t
Int8(x) == ((x + 128) % UINT8) - 128

\* the note (*notes_pointer)[i], i a C index
NoteAt(np, i) == Songs[np][i + 1]

NoteFreq(np, i) == NoteAt(np, i)[1]

NoteDur(np, i) == NoteAt(np, i)[2]

\* duration * (60.0f / tempo), in quarters
ScaledLength(duration, tempo) == (duration * 240) \div tempo

\* the driver is told to start, stop or initialize
Driver(s, what) ==
    [s EXCEPT !.driver_calls = Append(@, what), !.driver_last = what]

\* the highest C index in lo..hi whose slot holds f, or -1
LastIndexOf(fr, f, lo, hi) ==
    LET hits == {i \in lo..hi : fr[i + 1] = f}
    IN  IF hits = {} THEN -1 ELSE CHOOSE i \in hits : \A k \in hits : k <= i

\* the active part of a stack
ActivePart(fr, n) == SubSeq(fr, 1, n)

\* ------------------------------------------------- the program's functions
\* A function is called by value: it works on the state it is called in, which
\* is bound to s once (s \in {state}).
\*
\* Every entry point begins with a lazy "if (!audio_initialized) audio_init()".
\* audio_init sets audio_initialized before it plays the startup song, so in the
\* calls nested in it (audio_play_melody, audio_stop_all, audio_play_tone) that
\* lazy call does nothing: there the functions are entered past it.

\* a stop_all that leaves playing_note as it is
StopAllKeepingNote(state) ==
    [Driver([state EXCEPT !.active_tones = 0], "stop")
        EXCEPT !.playing_melody = FALSE,
               !.frequencies = [i \in 1..AUDIO_TONE_STACKSIZE |-> -1]]

\* audio_stop_all after its lazy audio_init
StopAllRest(state) ==
    CHOOSE result \in {(
        [Driver([s EXCEPT !.active_tones = 0], "stop")
            EXCEPT !.playing_melody = FALSE,
                   !.playing_note = FALSE,
                   !.frequencies = [i \in 1..AUDIO_TONE_STACKSIZE |-> -1]]
        ) : s \in {state}} : TRUE

\* audio_stop_tone's scan: from the last slot of the array down to slot 0
StopToneFind(fr, frequency) ==
    LastIndexOf(fr, frequency, 0, AUDIO_TONE_STACKSIZE - 1)

\* audio_stop_tone's removal of slot i: the later slots move down by one
StopToneShift(fr, i) ==
    [k \in 1..AUDIO_TONE_STACKSIZE |->
        IF k - 1 < i THEN fr[k]
        ELSE IF k - 1 < AUDIO_TONE_STACKSIZE - 1 THEN fr[k + 1]
        ELSE -1]

\* a release that never tells the driver to stop
StopToneSilently(state, frequency) ==
    CHOOSE result \in {(
        LET i  == StopToneFind(s.frequencies, frequency)
            dec == (s.active_tones - 1) % UINT8
        IN  IF i < 0 THEN s
            ELSE [s EXCEPT !.frequencies = StopToneShift(s.frequencies, i),
                           !.state_changed = TRUE,
                           !.active_tones = dec,
                           !.playing_note = dec # 0,
                           !.tone_multiplexing_index_shift =
                               IF s.multiplexing /\ @ >= dec THEN 0 ELSE @]
        ) : s \in {state}} : TRUE

\* audio_stop_tone after its lazy audio_init; frequency is not negative
StopToneRest(state, frequency) ==
    CHOOSE result \in {(
        LET i  == StopToneFind(s.frequencies, frequency)
            \* uint8_t active_tones--; the test (active_tones < 0) is on an unsigned
            dec == (s.active_tones - 1) % UINT8
            n  == IF dec < 0 THEN 0 ELSE dec
            s1 == [s EXCEPT !.frequencies = StopToneShift(s.frequencies, i),
                            !.state_changed = TRUE,
                            !.active_tones = n,
                            !.tone_multiplexing_index_shift =
                                IF s.multiplexing /\ @ >= n THEN 0 ELSE @]
        IN  IF i < 0 THEN s
            ELSE IF n = 0
                 THEN [Driver(s1, "stop") EXCEPT !.playing_note = FALSE]
                 ELSE s1
        ) : s \in {state}} : TRUE

\* a scan that never finds the tone
PlayToneFindNothing(fr, frequency, a) == -1

\* a scan that starts one slot below the top of the active part
PlayToneFindBelowTop(fr, frequency, a) == LastIndexOf(fr, frequency, 0, a - 2)

\* audio_play_tone's scan: from the top of the active part down to slot 0
PlayToneFind(fr, frequency, a) == LastIndexOf(fr, frequency, 0, a - 1)

\* a found tone that stays where it is
PlayToneShiftNothing(fr, i, a, frequency) == fr

\* audio_play_tone, tone found in slot i: it is shifted to the top of the active part
PlayToneShift(fr, i, a, frequency) ==
    [k \in 1..AUDIO_TONE_STACKSIZE |->
        IF k - 1 < i \/ k - 1 > a - 1 THEN fr[k]
        ELSE IF k - 1 < a - 1 THEN fr[k + 1]
        ELSE frequency]

\* a full stack that shifts nothing: the new tone overwrites the newest one
ShiftOutNothing(fr, n) == fr

\* audio_play_tone, stack full: the oldest tone is shifted out (n is the new count)
ShiftOutOldest(fr, n) ==
    [k \in 1..AUDIO_TONE_STACKSIZE |-> IF k - 1 < n - 1 THEN fr[k + 1] ELSE fr[k]]

\* audio_play_tone after its enable test and its lazy audio_init
PlayToneRest(state, freq) ==
    CHOOSE result \in {(
        LET frequency == IF freq < 0 THEN -1 * freq ELSE freq
            fr == s.frequencies
            a  == s.active_tones
            i  == PlayToneFind(fr, frequency, a)
            inc == (a + 1) % UINT8
            n  == IF inc > AUDIO_TONE_STACKSIZE THEN AUDIO_TONE_STACKSIZE ELSE inc
            room == IF inc > AUDIO_TONE_STACKSIZE THEN ShiftOutOldest(fr, n) ELSE fr
            s1 == [s EXCEPT !.active_tones = n,
                            !.state_changed = TRUE,
                            !.playing_note = TRUE,
                            !.frequencies = [room EXCEPT ![n] = frequency]]
        IN  IF i >= 0 THEN [s EXCEPT !.frequencies = PlayToneShift(fr, i, a, frequency)]
            ELSE IF n = 1 THEN Driver(s1, "start")
            ELSE s1
        ) : s \in {state}} : TRUE

\* audio_play_melody: the fields of the new melody are set
StartMelody(state, np, n_count, n_repeat) ==
    CHOOSE result \in {(
        [s EXCEPT !.playing_melody = TRUE,
                  !.note_resting = FALSE,
                  !.notes_pointer = np,
                  !.notes_count = n_count,
                  !.notes_repeat = n_repeat,
                  !.current_note = 0,
                  !.note_length = ScaledLength(NoteDur(np, 0), s.note_tempo),
                  !.note_position = 0]
        ) : s \in {state}} : TRUE

\* audio_play_melody: the first note is started; audio_play_tone with
\* audio_initialized set
StartFirstNote(state, np) ==
    CHOOSE result \in {(
        IF ~s.enable THEN s ELSE PlayToneRest(s, NoteFreq(np, 0))
        ) : s \in {state}} : TRUE

\* a melody that starts on top of the tones that are active
PlayMelodyKeepingTones(state, np, n_count, n_repeat) ==
    StartFirstNote(StartMelody(state, np, n_count, n_repeat), np)

\* audio_play_melody after its enable test and its lazy audio_init
PlayMelodyRest(state, np, n_count, n_repeat) ==
    CHOOSE result \in {(
        StartFirstNote(
            StartMelody(IF s.playing_note THEN StopAllRest(s) ELSE s,
                        np, n_count, n_repeat),
            np)
        ) : s \in {state}} : TRUE

\* PLAY_SONG(song) in audio_init: audio_play_melody with audio_initialized set
PLAY_SONG(state, np) ==
    CHOOSE result \in {(
        IF ~s.enable THEN s ELSE PlayMelodyRest(s, np, Len(Songs[np]), FALSE)
        ) : s \in {state}} : TRUE

\* audio_init: the startup song is played if audio is enabled
InitStartup(state) ==
    CHOOSE result \in {(
        IF s.enable THEN PLAY_SONG(s, startup_song) ELSE s
        ) : s \in {state}} : TRUE

\* audio_init (the build that keeps the configuration in EEPROM)
audio_init(state) ==
    CHOOSE result \in {(
        IF s.audio_initialized THEN s
        ELSE InitStartup([Driver([s EXCEPT !.enable = s.eeconfig_audio], "initialize")
                             EXCEPT !.audio_initialized = TRUE])
        ) : s \in {state}} : TRUE

\* the lazy initialisation every entry point begins with
Initialized(state) ==
    CHOOSE result \in {(
        IF ~s.audio_initialized THEN audio_init(s) ELSE s
        ) : s \in {state}} : TRUE

\* audio_stop_all
audio_stop_all(state) == StopAllRest(Initialized(state))

\* audio_stop_tone
audio_stop_tone(state, freq) ==
    CHOOSE result \in {(
        IF ~s.playing_note THEN s
        ELSE StopToneRest(Initialized(s), IF freq < 0 THEN -1 * freq ELSE freq)
        ) : s \in {state}} : TRUE

\* audio_play_tone
audio_play_tone(state, freq) ==
    CHOOSE result \in {(
        IF ~s.enable THEN s ELSE PlayToneRest(Initialized(s), freq)
        ) : s \in {state}} : TRUE

\* audio_play_melody
audio_play_melody(state, np, n_count, n_repeat) ==
    CHOOSE result \in {(
        IF ~s.enable THEN s
        ELSE PlayMelodyRest(Initialized(s), np, n_count, n_repeat)
        ) : s \in {state}} : TRUE

\* audio_toggle
audio_toggle(s) ==
    [s EXCEPT !.enable = ~s.enable, !.eeconfig_audio = ~s.enable]

\* audio_set_tempo
audio_set_tempo(s, tempo) ==
    IF tempo < 10 THEN [s EXCEPT !.note_tempo = 10]
    ELSE [s EXCEPT !.note_tempo = tempo]

\* an increase in 8 bits without the saturation test
IncreaseTempoWrapping(s, tempo_change) ==
    [s EXCEPT !.note_tempo = (@ + tempo_change) % UINT8]

\* audio_increase_tempo: the test is made in int, the sum is stored in 8 bits
audio_increase_tempo(s, tempo_change) ==
    IF tempo_change > 255 - s.note_tempo THEN [s EXCEPT !.note_tempo = 255]
    ELSE [s EXCEPT !.note_tempo = (@ + tempo_change) % UINT8]

\* audio_decrease_tempo: the test is made in int, the difference is stored in 8 bits
audio_decrease_tempo(s, tempo_change) ==
    IF tempo_change >= s.note_tempo - 10 THEN [s EXCEPT !.note_tempo = 10]
    ELSE [s EXCEPT !.note_tempo = (@ - tempo_change) % UINT8]

\* a melody that is over after its last note whether it repeats or not
MelodyOverIgnoringRepeat(incremented, n_count, n_repeat) == incremented >= n_count

\* audio_advance_state: the melody is over (past its last note and not repeating)
MelodyOver(incremented, n_count, n_repeat) == incremented >= n_count /\ ~n_repeat

\* audio_advance_state: the index of the next note, 0 again after the last one
NextIndex(incremented, n_count) == IF incremented >= n_count THEN 0 ELSE incremented

\* audio_advance_state: the melody ends, the last note's tone is released
EndMelody(state, previous_note) ==
    CHOOSE result \in {(
        audio_stop_tone([s EXCEPT !.playing_melody = FALSE],
                        NoteFreq(s.notes_pointer, previous_note))
        ) : s \in {state}} : TRUE

\* a next note or rest that starts at position 0, the overshoot dropped
NoteLengthFromZero(state, duration, carried) ==
    [state EXCEPT !.note_position = 0,
                  !.note_length = ScaledLength(duration, state.note_tempo)]

\* audio_advance_state: the overshoot is carried into the next note or rest, whose
\* length is duration * (60.0f / note_tempo)
NoteLength(state, duration, carried) ==
    CHOOSE result \in {(
        [s EXCEPT !.note_position = carried,
                  !.note_length = ScaledLength(duration, s.note_tempo)]
        ) : s \in {state}} : TRUE

\* audio_advance_state: a short rest between two notes of the same frequency
InsertRest(state, previous_note, carried) ==
    CHOOSE result \in {(
        NoteLength(
            audio_stop_tone(
                audio_play_tone([s EXCEPT !.note_resting = TRUE,
                                          !.current_note = previous_note], 0),
                NoteFreq(s.notes_pointer, previous_note)),
            2, carried)
        ) : s \in {state}} : TRUE

\* audio_advance_state: the previous note is stopped unless the next one has its
\* frequency
StopPrevious(state, previous_frequency, frequency) ==
    CHOOSE result \in {(
        IF previous_frequency # frequency
        THEN audio_stop_tone(s, previous_frequency)
        ELSE s
        ) : s \in {state}} : TRUE

\* audio_advance_state: the next note starts before the previous one is stopped
StartNote(state, previous_note, cn, carried) ==
    CHOOSE result \in {(
        NoteLength(
            StopPrevious(
                audio_play_tone([s EXCEPT !.note_resting = FALSE, !.current_note = cn],
                                NoteFreq(s.notes_pointer, cn)),
                NoteFreq(s.notes_pointer, previous_note),
                NoteFreq(s.notes_pointer, cn)),
            NoteDur(s.notes_pointer, cn), carried)
        ) : s \in {state}} : TRUE

\* the melody part of audio_advance_state, entered when the note's length has
\* elapsed; done is TRUE when the function returns from inside it
NextNote(state, end) ==
    CHOOSE result \in {(
        LET np == s.notes_pointer
            previous_note == s.current_note
            incremented == (s.current_note + 1) % UINT16
            cn == NextIndex(incremented, s.notes_count)
            \* note_position - (note_length * end), converted back to uint32_t
            carried == ((s.note_position * 16) - (s.note_length * end)) \div 16
        IN  IF MelodyOver(incremented, s.notes_count, s.notes_repeat)
            THEN [done |-> TRUE,
                  s |-> EndMelody([s EXCEPT !.current_note = incremented], previous_note)]
            ELSE IF ~s.note_resting /\ NoteFreq(np, previous_note) = NoteFreq(np, cn)
            THEN [done |-> FALSE, s |-> InsertRest(s, previous_note, carried)]
            ELSE [done |-> FALSE, s |-> StartNote(s, previous_note, cn, carried)]
        ) : s \in {state}} : TRUE

\* audio_get_frequency
audio_get_frequency(s, tone_index) ==
    IF tone_index >= s.active_tones THEN 0
    ELSE s.frequencies[(s.active_tones - tone_index - 1) + 1]

\* audio_advance_state: the state_changed latch has priority over goto_next_note
AdvanceReturn(state, goto_next_note) ==
    CHOOSE result \in {(
        IF s.state_changed
        THEN [s EXCEPT !.state_changed = FALSE, !.ret = TRUE]
        ELSE [s EXCEPT !.ret = goto_next_note]
        ) : s \in {state}} : TRUE

\* audio_advance_state after the melody part: stop_all when nothing plays
AdvanceEnd(state, goto_next_note) ==
    CHOOSE result \in {(
        AdvanceReturn(IF ~s.playing_note /\ ~s.playing_melody
                      THEN audio_stop_all(s)
                      ELSE s,
                      goto_next_note)
        ) : s \in {state}} : TRUE

\* audio_advance_state: "return true" at the end of a melody, else the function
\* goes on
AfterNextNote(next) ==
    CHOOSE result \in {(
        IF m.done THEN [m.s EXCEPT !.ret = TRUE] ELSE AdvanceEnd(m.s, TRUE)
        ) : m \in {next}} : TRUE

\* audio_advance_state with a melody playing, note_position advanced by step:
\* goto_next_note = note_position >= (note_length * end)
AdvanceMelody(state, end) ==
    CHOOSE result \in {(
        IF s.note_position * 16 >= s.note_length * end
        THEN AfterNextNote(NextNote(s, end))
        ELSE AdvanceEnd(s, FALSE)
        ) : s \in {state}} : TRUE

\* audio_advance_state, the tone multiplexing of a playing note; quotient is
\* (int)(timer_read() / tone_multiplexing_rate), the result is stored in a uint8_t
MultiplexShift(state, quotient) ==
    CHOOSE result \in {(
        IF s.multiplexing /\ s.playing_note
        THEN [s EXCEPT !.tone_multiplexing_index_shift =
                  Remainder(quotient,
                            Min(AUDIO_MAX_SIMULTANEOUS_TONES, s.active_tones)) % UINT8]
        ELSE s
        ) : s \in {state}} : TRUE

\* audio_advance_state(step, end); effects is (vibrato || glissando) of voices.c.
\* note_position is a uint32_t that stays below note_length + step, far from 2^32
audio_advance_state(state, step, end, effects, quotient) ==
    CHOOSE result \in {(
        IF s.playing_melody
        THEN AdvanceMelody([MultiplexShift(s, quotient)
                                EXCEPT !.note_position = @ + step], end)
        ELSE AdvanceEnd(MultiplexShift(s, quotient),
                        s.playing_note /\ (s.multiplexing \/ effects))
        ) : s \in {state}} : TRUE

\* audio_set_tone_multiplexing_rate
audio_set_tone_multiplexing_rate(s, rate) ==
    [s EXCEPT !.tone_multiplexing_rate = rate]

\* audio_disable_tone_multiplexing
audio_disable_tone_multiplexing(s) ==
    [s EXCEPT !.tone_multiplexing_rate = 0]

\* audio_get_processed_frequency: the index into frequencies, an int8_t
ProcessedIndex(s, tone_index) ==
    LET index   == Int8(s.active_tones - tone_index - 1)
        shifted == Int8(index - s.tone_multiplexing_index_shift)
    IN  IF ~s.multiplexing THEN index
        ELSE IF shifted < 0 THEN Int8(shifted + s.active_tones)
        ELSE shifted

\* audio_get_processed_frequency: the values the call can return. A read outside
\* the array is undefined and returns anything; voice_envelope is a function of
\* voices.c applied to the frequency read (glissando starts from frequency 0.0
\* and so takes the value read as it is)
audio_get_processed_frequency(s, tone_index) ==
    LET index == ProcessedIndex(s, tone_index)
    IN  IF tone_index >= s.active_tones THEN {0}
        ELSE IF index \notin 0..(AUDIO_TONE_STACKSIZE - 1)
        THEN {0} \cup {[voice_envelope |-> f] : f \in Tones}
        ELSE IF s.frequencies[index + 1] <= 0 THEN {0}
        ELSE {[voice_envelope |-> s.frequencies[index + 1]]}

\* ---------------------------------------------------------- state machine
\* the program's globals as a record; an operation starts with no driver call made
Cur ==
    [audio_initialized |-> audio_initialized, enable |-> enable,
     eeconfig_audio |-> eeconfig_audio, active_tones |-> active_tones,
     frequencies |-> frequencies, playing_melody |-> playing_melody,
     playing_note |-> playing_note, state_changed |-> state_changed,
     notes_pointer |-> notes_pointer, notes_count |-> notes_count,
     notes_repeat |-> notes_repeat, note_length |-> note_length,
     note_tempo |-> note_tempo, current_note |-> current_note,
     note_position |-> note_position, note_resting |-> note_resting,
     driver_calls |-> << >>, driver_last |-> driver_last, ret |-> ret,
     multiplexing |-> multiplexing,
     tone_multiplexing_rate |-> tone_multiplexing_rate,
     tone_multiplexing_index_shift |-> tone_multiplexing_index_shift]

\* the C index of |f| in the active part of the stack, or -1
ActiveIndex(f) == LastIndexOf(frequencies, Abs(f), 0, active_tones - 1)

\* what is remembered of the state an operation was called in
Snapshot(found) ==
    [active_tones |-> active_tones, found |-> found,
     playing_note |-> playing_note, playing_melody |-> playing_melody,
     enable |-> enable, current_note |-> current_note,
     note_resting |-> note_resting]

\* the program's variables take the values of the record the operation returns
Becomes(result) ==
    \E t \in {result} :
        /\ audio_initialized' = t.audio_initialized
        /\ enable' = t.enable
        /\ eeconfig_audio' = t.eeconfig_audio
        /\ active_tones' = t.active_tones
        /\ frequencies' = t.frequencies
        /\ playing_melody' = t.playing_melody
        /\ playing_note' = t.playing_note
        /\ state_changed' = t.state_changed
        /\ notes_pointer' = t.notes_pointer
        /\ notes_count' = t.notes_count
        /\ notes_repeat' = t.notes_repeat
        /\ note_length' = t.note_length
        /\ note_tempo' = t.note_tempo
        /\ current_note' = t.current_note
        /\ note_position' = t.note_position
        /\ note_resting' = t.note_resting
        /\ driver_calls' = t.driver_calls
        /\ driver_last' = t.driver_last
        /\ ret' = t.ret
        /\ multiplexing' = t.multiplexing
        /\ tone_multiplexing_rate' = t.tone_multiplexing_rate
        /\ tone_multiplexing_index_shift' = t.tone_multiplexing_index_shift

Called(op, arg, found) ==
    /\ call' = [op |-> op, arg |-> arg]
    /\ pre' = Snapshot(found)
    /\ stopwatch' = stopwatch

\* the stopwatch of a timer that ticks with one step: not running
Stopped == [step |-> 0, elapsed |-> 0, steady |-> TRUE]

\* this operation starts a melody: audio_play_melody with audio enabled,
\* the first audio_init playing the startup song, a tick that initialises lazily
Restarted(op) ==
    \/ op = "play_melody" /\ enable
    \/ op = "init" /\ ~audio_initialized /\ playing_melody'
    \/ op = "advance_state" /\ ~playing_melody /\ playing_melody'

\* an operation under the stopwatch: the stopwatch starts from 0 with a melody,
\* a tick gives its step to the melody playing, and steady tells that the
\* tempo has not changed since the melody started
Timed(op, arg) ==
    /\ call' = [op |-> op, arg |-> arg]
    /\ pre' = Snapshot(-1)
    /\ stopwatch' =
           [step |-> stopwatch.step,
            elapsed |-> IF op = "advance_state" /\ playing_melody
                        THEN stopwatch.elapsed + stopwatch.step
                        ELSE IF Restarted(op) THEN 0
                        ELSE stopwatch.elapsed,
            steady |-> IF Restarted(op) THEN TRUE
                       ELSE stopwatch.steady /\ (playing_melody => note_tempo' = note_tempo)]

\* the initial values of a build; the multiplexing rate starts at
\* AUDIO_TONE_MULTIPLEXING_RATE_DEFAULT, a value of the configuration
Build(enabled, rate) ==
    /\ multiplexing = enabled
    /\ tone_multiplexing_rate = rate
    /\ tone_multiplexing_index_shift = 0
    /\ audio_initialized = FALSE
    /\ enable = FALSE
    /\ eeconfig_audio \in BOOLEAN
    /\ active_tones = 0
    /\ frequencies = [i \in 1..AUDIO_TONE_STACKSIZE |-> IF i = 1 THEN -1 ELSE 0]
    /\ playing_melody = FALSE
    /\ playing_note = FALSE
    /\ state_changed = FALSE
    /\ notes_pointer = NULL
    /\ notes_count = 0
    /\ notes_repeat = FALSE
    /\ note_length = 0
    /\ note_tempo = TEMPO_DEFAULT
    /\ current_note = 0
    /\ note_position = 0
    /\ note_resting = FALSE
    /\ driver_calls = << >>
    /\ driver_last = "none"
    /\ ret = FALSE
    /\ call = [op |-> "none", arg |-> << >>]
    /\ pre = Snapshot(-1)

\* a build without AUDIO_ENABLE_TONE_MULTIPLEXING
Init == Build(FALSE, 0) /\ stopwatch = Stopped

\* a build with AUDIO_ENABLE_TONE_MULTIPLEXING
InitMultiplexing == \E rate \in Rates : Build(TRUE, rate) /\ stopwatch = Stopped

\* a build whose driver ticks with one step throughout
InitTimed ==
    \E step \in TickSteps :
        Build(FALSE, 0) /\ stopwatch = [step |-> step, elapsed |-> 0, steady |-> TRUE]

DoInit ==
    /\ Becomes(audio_init(Cur))
    /\ Called("init", << >>, -1)

DoToggle ==
    /\ Becomes(audio_toggle(Cur))
    /\ Called("toggle", << >>, -1)

DoStopAll ==
    /\ Becomes(audio_stop_all(Cur))
    /\ Called("stop_all", << >>, -1)

DoPlayTone ==
    \E f \in ToneArgs :
        /\ Becomes(audio_play_tone(Cur, f))
        /\ Called("play_tone", << f >>, ActiveIndex(f))

DoStopTone ==
    \E f \in ToneArgs :
        /\ Becomes(audio_stop_tone(Cur, f))
        /\ Called("stop_tone", << f >>, ActiveIndex(f))

DoPlayMelody ==
    \E np \in 1..Len(Songs), n_repeat \in BOOLEAN :
        /\ Becomes(audio_play_melody(Cur, np, Len(Songs[np]), n_repeat))
        /\ Called("play_melody", << np, n_repeat >>, -1)

\* the values of (int)(timer_read() / tone_multiplexing_rate)
Quotients ==
    IF ~multiplexing THEN {0}
    ELSE IF tone_multiplexing_rate = 0 THEN UndefinedInt
    ELSE {timer \div tone_multiplexing_rate : timer \in Timers}

Advance(steps) ==
    \E step \in steps, end \in Ends, effects \in BOOLEAN, quotient \in Quotients :
        /\ playing_melody =>
               (note_position + step) * 16 <= note_length * end + 16 * MaxOvershoot
        /\ Becomes(audio_advance_state(Cur, step, end, effects, quotient))
        /\ Called("advance_state", << step, end, effects >>, -1)

DoSetTempo ==
    \E tempo \in TempoArgs :
        /\ Becomes(audio_set_tempo(Cur, tempo))
        /\ Called("set_tempo", << tempo >>, -1)

DoAdvance == Advance(Steps)

DoSetMultiplexingRate ==
    \E rate \in Rates :
        /\ Becomes(audio_set_tone_multiplexing_rate(Cur, rate))
        /\ Called("set_tone_multiplexing_rate", << rate >>, -1)

DoDisableMultiplexing ==
    /\ Becomes(audio_disable_tone_multiplexing(Cur))
    /\ Called("disable_tone_multiplexing", << >>, -1)

Next ==
    \/ DoInit
    \/ DoStopAll
    \/ DoPlayTone
    \/ DoStopTone
    \/ DoPlayMelody
    \/ DoAdvance

Spec == Init /\ [][Next]_vars

\* playback alone: melodies are started and the driver's timer ticks, nothing else
\* requests or releases tones; the timer never stops ticking
NextPlayback ==
    \/ DoInit
    \/ DoPlayMelody
    \/ DoAdvance
    \/ DoSetTempo

SpecPlayback == Init /\ [][NextPlayback]_vars /\ WF_vars(DoAdvance)

\* the tempo functions alone, called with 8-bit arguments around their tests
DoSetAnyTempo ==
    \E tempo \in TempoBytes :
        /\ Becomes(audio_set_tempo(Cur, tempo))
        /\ Called("set_tempo", << tempo >>, -1)

DoIncreaseTempo ==
    \E tempo_change \in TempoBytes :
        /\ Becomes(audio_increase_tempo(Cur, tempo_change))
        /\ Called("increase_tempo", << tempo_change >>, -1)

DoDecreaseTempo ==
    \E tempo_change \in TempoBytes :
        /\ Becomes(audio_decrease_tempo(Cur, tempo_change))
        /\ Called("decrease_tempo", << tempo_change >>, -1)

NextTempo ==
    \/ DoSetAnyTempo
    \/ DoIncreaseTempo
    \/ DoDecreaseTempo

SpecTempo == Init /\ [][NextTempo]_vars

\* the startup song played once more
DoPlaySong ==
    /\ Becomes(audio_play_melody(Cur, startup_song, Len(Songs[startup_song]), FALSE))
    /\ Called("play_melody", << startup_song, FALSE >>, -1)

\* ticks of the largest step
DoCoarseTick == Advance({MaxStep})

\* a build with tone multiplexing: tones, a melody, ticks and the multiplexing rate
NextMultiplexing ==
    \/ DoInit
    \/ DoStopAll
    \/ DoPlayTone
    \/ DoStopTone
    \/ DoPlaySong
    \/ DoCoarseTick
    \/ DoSetMultiplexingRate
    \/ DoDisableMultiplexing

SpecMultiplexing == InitMultiplexing /\ [][NextMultiplexing]_vars

\* melodies played once under a timer that ticks with one step and end 1.0f
DoTimedInit ==
    /\ Becomes(audio_init(Cur))
    /\ Timed("init", << >>)

DoTimedMelody ==
    \E np \in 1..Len(Songs) :
        /\ Becomes(audio_play_melody(Cur, np, Len(Songs[np]), FALSE))
        /\ Timed("play_melody", << np, FALSE >>)

DoTimedTick ==
    \E effects \in BOOLEAN :
        /\ Becomes(audio_advance_state(Cur, stopwatch.step, 4, effects, 0))
        /\ Timed("advance_state", << stopwatch.step, 4, effects >>)

DoTimedTempo ==
    \E tempo \in TempoArgs :
        /\ Becomes(audio_set_tempo(Cur, tempo))
        /\ Timed("set_tempo", << tempo >>)

NextTimed ==
    \/ DoTimedInit
    \/ DoTimedMelody
    \/ DoTimedTick
    \/ DoTimedTempo

SpecTimed == InitTimed /\ [][NextTimed]_vars

\* a keyboard of AUDIO_TONE_STACKSIZE + 1 keys played in runs: the key pressed
\* is a neighbour (cyclically) of the key pressed last, so the tone stack fills
\* up and overflows
EvictTones == 1..(AUDIO_TONE_STACKSIZE + 1)

Neighbours(f, g) ==
    \/ g = (f % (AUDIO_TONE_STACKSIZE + 1)) + 1
    \/ f = (g % (AUDIO_TONE_STACKSIZE + 1)) + 1

DoPress ==
    \E f \in EvictTones :
        /\ active_tones > 0 => Neighbours(frequencies[active_tones], f)
        /\ Becomes(audio_play_tone(Cur, f))
        /\ Called("play_tone", << f >>, ActiveIndex(f))

NextEvict ==
    \/ DoInit
    \/ DoPress
    \/ DoStopAll

SpecEvict == Init /\ [][NextEvict]_vars

TypeOK ==
    /\ active_tones \in 0..(UINT8 - 1)
    /\ Len(frequencies) = AUDIO_TONE_STACKSIZE
    /\ note_position \in Nat
    /\ multiplexing \in BOOLEAN
    /\ tone_multiplexing_index_shift \in 0..(UINT8 - 1)

\* ------------------------------------------------------ claims: tone stack
\* the active tones, oldest first
Active == ActivePart(frequencies, active_tones)

NoDuplicates(seq) == \A i, j \in 1..Len(seq) : seq[i] = seq[j] => i = j

\* seq without the element at C index i
Without(seq, i) == SubSeq(seq, 1, i) \o SubSeq(seq, i + 2, Len(seq))

Fired(calls, what) == \E k \in 1..Len(calls) : calls[k] = what

\* this step is a call of audio_play_tone(f)
PlayToneCalled(f) == call' = [op |-> "play_tone", arg |-> << f >>]

\* this step is a call of audio_stop_tone(f)
StopToneCalled(f) == call' = [op |-> "stop_tone", arg |-> << f >>]

\* C1: after any sequence of play_tone, stop_tone, stop_all, play_melody and
\* advance_state calls the number of active tones is within 0..AUDIO_TONE_STACKSIZE
\* and no frequency is twice in the active part of the stack.
C1_StackInvariant ==
    /\ active_tones \in 0..AUDIO_TONE_STACKSIZE
    /\ NoDuplicates(Active)

\* every user tone is active and one of them was requested once more
C1_Witness ==
    /\ call.op = "play_tone"
    /\ pre.found >= 0
    /\ active_tones = Cardinality(Tones)

\* C2 as claimed: play_tone(f) with f among the active tones leaves the stack as
\* it was (f is not moved to the top).
C2_OrderUnchanged ==
    [][\A f \in ToneArgs :
          (PlayToneCalled(f) /\ ActiveIndex(f) >= 0) => frequencies' = frequencies]_vars

\* C2 amended: play_tone(f) with f among the active tones (audio enabled) moves f
\* to the top of the active part, the other active tones keep their relative
\* order, the count and the slots above the active part are unchanged; with audio
\* disabled the call changes nothing.
C2_MovedToTop ==
    [][\A f \in ToneArgs :
          (PlayToneCalled(f) /\ ActiveIndex(f) >= 0) =>
              /\ active_tones' = active_tones
              /\ enable => Active' = Append(Without(Active, ActiveIndex(f)), Abs(f))
              /\ ~enable => Active' = Active
              /\ \A k \in (active_tones + 1)..AUDIO_TONE_STACKSIZE :
                     frequencies'[k] = frequencies[k]]_vars

\* an active tone below the top was requested again and is on top now
C2_Witness ==
    /\ call.op = "play_tone"
    /\ pre.enable
    /\ pre.found >= 0
    /\ pre.found < pre.active_tones - 1
    /\ frequencies[active_tones] = Abs(call.arg[1])

\* C3: play_tone(f) with f among the active tones changes neither the number of
\* active tones nor the state_changed flag and does not start the driver.
C3_NoSideEffect ==
    [][\A f \in ToneArgs :
          (PlayToneCalled(f) /\ ActiveIndex(f) >= 0) =>
              /\ active_tones' = active_tones
              /\ state_changed' = state_changed
              /\ ~Fired(driver_calls', "start")]_vars

\* an active tone was requested again while the state_changed flag was clear
C3_Witness ==
    /\ call.op = "play_tone"
    /\ pre.enable
    /\ pre.found >= 0
    /\ ~state_changed

\* C4: play_tone(f) of a new frequency on a full stack evicts exactly the oldest
\* entry (slot 0); the others keep their order, move down one slot, and f is last.
C4_EvictsOldest ==
    [][\A f \in EvictTones :
          (PlayToneCalled(f) /\ enable /\ active_tones = AUDIO_TONE_STACKSIZE
             /\ ActiveIndex(f) < 0) =>
              /\ active_tones' = AUDIO_TONE_STACKSIZE
              /\ frequencies' = Append(Tail(frequencies), Abs(f))]_vars

\* a new tone was requested with AUDIO_TONE_STACKSIZE tones active
C4_Witness ==
    /\ call.op = "play_tone"
    /\ pre.enable
    /\ pre.active_tones = AUDIO_TONE_STACKSIZE
    /\ pre.found < 0
    /\ frequencies[AUDIO_TONE_STACKSIZE] = call.arg[1]

\* C5 as claimed: stop_tone(f) for f not among the active tones changes nothing
\* and fires no driver call.
C5_AbsentIsNoOp ==
    [][\A f \in ToneArgs :
          (StopToneCalled(f) /\ ActiveIndex(f) < 0) =>
              /\ active_tones' = active_tones
              /\ Active' = Active
              /\ playing_note' = playing_note
              /\ state_changed' = state_changed
              /\ ~Fired(driver_calls', "stop")]_vars

\* C6 as claimed: stop_tone(f) for an active f removes exactly f, keeps the order
\* of the other active tones, decrements the count, and stops the driver and
\* clears playing_note exactly when the count reaches 0.
C6_RemovesExactly ==
    [][\A f \in ToneArgs :
          (StopToneCalled(f) /\ ActiveIndex(f) >= 0) =>
              /\ active_tones' = active_tones - 1
              /\ Active' = Without(Active, ActiveIndex(f))
              /\ Fired(driver_calls', "stop") <=> active_tones' = 0
              /\ playing_note' <=> active_tones' > 0]_vars


\* ------------------------------------------------------ claims: melody sequencer
\* this step is a call of audio_advance_state
Ticked == call'.op = "advance_state"

\* the current note's length has elapsed with the step of this tick
Elapsed == (note_position + call'.arg[1]) * 16 >= note_length * call'.arg[2]

\* the melody is on its last note
OnLastNote == current_note + 1 >= notes_count

\* the frequency of the melody's note at index i, as the tone stack holds it
StackFreq(i) == Abs(NoteFreq(notes_pointer, i))

\* the index of the note after the current one
Following == NextIndex(current_note + 1, notes_count)

\* the most recent tone; audio_get_frequency(0) in the state after the step
frequency_at_0 == audio_get_frequency(Cur, 0)

\* the last tick ended a melody
Ended == call.op = "advance_state" /\ pre.playing_melody /\ ~playing_melody

Silent ==
    /\ active_tones = 0
    /\ ~playing_note
    /\ ~playing_melody
    /\ driver_last = "stop"

\* C7: once a non-repeating melody has reached its end and nothing but ticks is
\* called, eventually no tone is active, playing_note and playing_melody are
\* false and the driver has been stopped.
C7_ConvergesToSilence == [](Ended => <>(Silent \/ call.op # "advance_state"))

\* C7 for the melodies without two consecutive notes of the same frequency
C7_ConvergesWithoutRepeatedNote ==
    []((Ended /\ notes_pointer \in {2, 3}) => <>(Silent \/ call.op # "advance_state"))

\* C8: a tick ends a non-repeating melody exactly when its last note's length has
\* elapsed, that tick takes the last note's frequency off the active tones, and
\* a tick without a playing melody (audio being initialised) leaves playing_melody false and the index,
\* position and note length as they were.
C8_CompletesOnce ==
    [][Ticked =>
          /\ (playing_melody /\ ~notes_repeat /\ OnLastNote /\ Elapsed) =>
                 /\ ~playing_melody'
                 /\ \A k \in 1..active_tones' : frequencies'[k] # StackFreq(current_note)
          /\ (playing_melody /\ ~playing_melody') =>
                 (~notes_repeat /\ OnLastNote /\ Elapsed)
          /\ (audio_initialized /\ ~playing_melody) =>
                 /\ ~playing_melody'
                 /\ current_note' = current_note
                 /\ note_position' = note_position
                 /\ note_length' = note_length]_vars

\* C9: when a note of a playing melody has elapsed and the following note has the
\* same frequency f, the most recent tone is f and the tick inserts a rest: the
\* index stays, the most recent tone becomes 0 and the length 2 units scaled by
\* 60/tempo; the tick that ends the rest moves the index to the following note
\* and makes f the most recent tone again; the other ticks of a playing melody
\* change neither the index nor the most recent tone.
C9_RestBetweenEqualNotes ==
    [][Ticked =>
          /\ ( /\ playing_melody /\ Elapsed /\ ~note_resting
               /\ ~(OnLastNote /\ ~notes_repeat)
               /\ NoteFreq(notes_pointer, current_note) = NoteFreq(notes_pointer, Following) ) =>
                 /\ frequency_at_0 = StackFreq(current_note)
                 /\ note_resting'
                 /\ current_note' = current_note
                 /\ frequency_at_0' = 0
                 /\ note_length' = ScaledLength(2, note_tempo)
                 /\ note_length' * note_tempo = 2 * 60 * 4
          /\ ( /\ playing_melody /\ Elapsed /\ note_resting
               /\ ~(OnLastNote /\ ~notes_repeat) ) =>
                 /\ NoteFreq(notes_pointer, current_note) = NoteFreq(notes_pointer, Following)
                 /\ frequency_at_0 = 0
                 /\ ~note_resting'
                 /\ current_note' = Following
                 /\ frequency_at_0' = StackFreq(Following)
          /\ (playing_melody /\ ~Elapsed) =>
                 /\ note_resting' = note_resting
                 /\ current_note' = current_note
                 /\ frequency_at_0' = frequency_at_0]_vars

\* C10: a tick never ends a repeating melody; whenever a repeating melody plays its
\* index is smaller than the note count; the tick in which the last note has
\* elapsed sets the index to 0 (after the rest, where one is inserted first).
C10_NeverCompletes ==
    [][ /\ (playing_melody' /\ notes_repeat') => current_note' < notes_count'
        /\ (Ticked /\ playing_melody /\ notes_repeat) =>
               /\ playing_melody'
               /\ notes_repeat'
               /\ (Elapsed /\ OnLastNote) =>
                      \/ current_note' = 0
                      \/ /\ ~note_resting
                         /\ note_resting'
                         /\ current_note' = current_note
                         /\ NoteFreq(notes_pointer, current_note) = NoteFreq(notes_pointer, 0)
               /\ (Elapsed /\ OnLastNote /\ note_resting) => current_note' = 0 ]_vars

\* a repeating melody has gone from its last note back to its first
C10_Witness ==
    /\ call.op = "advance_state"
    /\ pre.playing_melody
    /\ playing_melody
    /\ notes_repeat
    /\ pre.current_note = notes_count - 1
    /\ current_note = 0

\* ------------------------------------------------------ claims: play_melody
\* C12: after play_melody(np, count, repeat) called with audio enabled the active
\* part of the stack is exactly the absolute value of the first note's
\* frequency, playing_melody is true, index and position are 0, note_resting is
\* false and note_length is the first note's duration times 60/tempo.
C12_PlayMelodyPostcondition ==
    [][\A np \in 1..Len(Songs), n_repeat \in BOOLEAN :
          (call' = [op |-> "play_melody", arg |-> << np, n_repeat >>] /\ enable) =>
              /\ Active' = << Abs(NoteFreq(np, 0)) >>
              /\ playing_melody'
              /\ playing_note'
              /\ notes_pointer' = np
              /\ notes_count' = Len(Songs[np])
              /\ notes_repeat' = n_repeat
              /\ current_note' = 0
              /\ note_position' = 0
              /\ ~note_resting'
              /\ note_length' = ScaledLength(NoteDur(np, 0), note_tempo')
              /\ note_length' * note_tempo' = NoteDur(np, 0) * 60 * 4]_vars

\* a melody was started while two or more tones were active
C12_Witness ==
    /\ call.op = "play_melody"
    /\ pre.enable
    /\ pre.active_tones >= 2
    /\ active_tones = 1
    /\ playing_melody

\* ------------------------------------------------------ claims: the tick
\* this tick moves a playing melody from its current note to a following note of
\* another frequency
Transition ==
    /\ Ticked
    /\ playing_melody
    /\ Elapsed
    /\ ~(OnLastNote /\ ~notes_repeat)
    /\ NoteFreq(notes_pointer, current_note) # NoteFreq(notes_pointer, Following)

\* C15: a tick that moves a melody between two notes of different frequency, with
\* at least one tone active before it, calls neither audio_driver_stop nor
\* audio_driver_start and leaves at least one tone active.
C15_NoGapInTransition ==
    [][(Transition /\ active_tones >= 1) =>
          /\ ~Fired(driver_calls', "stop")
          /\ ~Fired(driver_calls', "start")
          /\ active_tones' >= 1]_vars


\* C16: a tick called while a note is active and vibrato or glissando is on
\* returns true, whether or not a melody plays and moves on in this tick.
C16_ForcedReturn ==
    [][(Ticked /\ playing_note /\ call'.arg[3]) => ret']_vars

\* C16 where no melody plays: the forced value is what the tick returns
C16_ForcedWithoutMelody ==
    [][(Ticked /\ playing_note /\ call'.arg[3] /\ ~playing_melody) => ret']_vars

\* C17: a tick called with the state_changed latch set returns true, and after
\* every tick the latch is clear.
C17_LatchCleared ==
    [][Ticked => (~state_changed' /\ (state_changed => ret'))]_vars

\* C17 but for the tick that ends a melody
C17_LatchClearedUnlessEnded ==
    [][(Ticked /\ ~(playing_melody /\ ~playing_melody')) =>
          (~state_changed' /\ (state_changed => ret'))]_vars

\* ------------------------------------------------------ claims: stack and driver
\* C19: after every operation playing_note is true exactly when tones are active,
\* and the unsigned count has not wrapped below 0.
C19_PlayingNoteIffActive ==
    /\ playing_note <=> active_tones > 0
    /\ active_tones < UINT8 - 1

\* the last active tone was released
C19_Witness ==
    /\ call.op = "stop_tone"
    /\ pre.active_tones = 1
    /\ pre.playing_note
    /\ active_tones = 0
    /\ ~playing_note

\* C20: after every operation the last signal to the driver is start if tones are
\* active and stop (or none yet) if none is; a play_tone call fires start only
\* when it takes the count from 0 to 1.
C20_DriverConsistent ==
    [][ /\ active_tones' >= 1 => driver_last' = "start"
        /\ active_tones' = 0 => driver_last' \in {"stop", "none", "initialize"}
        /\ (call'.op = "play_tone" /\ audio_initialized /\ Fired(driver_calls', "start")) =>
               (active_tones = 0 /\ active_tones' = 1) ]_vars

\* the driver was stopped and started again
C20_Witness ==
    /\ call.op = "play_tone"
    /\ pre.active_tones = 0
    /\ active_tones = 1
    /\ driver_calls = << "start" >>
    /\ driver_last = "start"


\* ------------------------------------------------------------- claims: tempo
\* C13: after any sequence of tempo calls with 8-bit arguments note_tempo is in
\* 10..255: audio_set_tempo stores its argument or 10 if it is less, an increase
\* saturates at 255 and a decrease at 10, neither wraps round.
C13_TempoClamped ==
    /\ [](note_tempo \in 10..255)
    /\ [][\A t \in TempoBytes \cup TempoArgs :
            /\ call' = [op |-> "set_tempo", arg |-> << t >>] =>
                   note_tempo' = IF t < 10 THEN 10 ELSE t
            /\ call' = [op |-> "increase_tempo", arg |-> << t >>] =>
                   note_tempo' = IF note_tempo + t > 255 THEN 255 ELSE note_tempo + t
            /\ call' = [op |-> "decrease_tempo", arg |-> << t >>] =>
                   note_tempo' = IF note_tempo - t < 10 THEN 10 ELSE note_tempo - t]_vars

\* an increase by 255 has saturated
C13_Witness ==
    /\ call = [op |-> "increase_tempo", arg |-> << 255 >>]
    /\ note_tempo = 255


\* ------------------------------------------------------ claims: multiplexing
\* the bound of the index shift with n tones active
ShiftBound(n) == Min(AUDIO_MAX_SIMULTANEOUS_TONES, n)

\* C14: built with tone multiplexing, whenever tones are active the index shift
\* is below min(AUDIO_MAX_SIMULTANEOUS_TONES, active_tones), and it is 0 whenever
\* the rate is 0.
C14_ShiftInRange ==
    (multiplexing /\ active_tones >= 1) =>
        /\ tone_multiplexing_index_shift < ShiftBound(active_tones)
        /\ tone_multiplexing_rate = 0 => tone_multiplexing_index_shift = 0

\* C14, the bound alone, in the states where the rate is not 0
C14_ShiftInRangeEnabled ==
    (multiplexing /\ active_tones >= 1 /\ tone_multiplexing_rate > 0) =>
        tone_multiplexing_index_shift < ShiftBound(active_tones)

\* C14 after the operations that keep or lower the shift: every operation but
\* play_tone and play_melody leaves the shift within its bound if the rate is set
C14_ShiftInRangeUnlessRestarted ==
    [][(multiplexing /\ tone_multiplexing_rate > 0 /\ tone_multiplexing_rate' > 0
            /\ active_tones' >= 1
            /\ (active_tones >= 1 => tone_multiplexing_index_shift < ShiftBound(active_tones))
            /\ call'.op \notin {"play_tone", "play_melody", "init"}) =>
           tone_multiplexing_index_shift' < ShiftBound(active_tones')]_vars

Slots == 0..(AUDIO_TONE_STACKSIZE + 1)

\* C18: for every slot below active_tones audio_get_processed_frequency reads the
\* array at an index within the active part, and for every other slot it returns 0.
C18_ReadsActivePart ==
    \A slot \in Slots :
        /\ slot < active_tones => ProcessedIndex(Cur, slot) \in 0..(active_tones - 1)
        /\ slot >= active_tones => audio_get_processed_frequency(Cur, slot) = {0}

\* C18 in the states where the shift is within its bound
C18_ReadsActivePartWithinBound ==
    (active_tones >= 1 => tone_multiplexing_index_shift < ShiftBound(active_tones)) =>
        C18_ReadsActivePart

\* ----------------------------------------------------- claims: duration
\* the lengths of the notes 0 .. n - 1 of melody np at a tempo, in quarters
LengthOfNotes(np, n, tempo) ==
    LET sum[i \in 0..n] ==
            IF i = 0 THEN 0 ELSE sum[i - 1] + ScaledLength(NoteDur(np, i - 1), tempo)
    IN  sum[n]

\* the notes of melody np that are followed by a note of their frequency
RepeatedNotes(np) ==
    {i \in 0..(Len(Songs[np]) - 2) : NoteFreq(np, i) = NoteFreq(np, i + 1)}

\* the length of the rests inserted into melody np, in quarters
LengthOfRests(np, tempo) == Cardinality(RepeatedNotes(np)) * ScaledLength(2, tempo)

\* the melody ends with this tick, the tempo unchanged since it started
Completes == Ticked /\ playing_melody /\ ~playing_melody' /\ stopwatch.steady

\* no note of the melody playing, and no inserted rest, is shorter than the step
FineTicks ==
    /\ \A i \in 0..(notes_count - 1) :
           stopwatch.step * 4 <= ScaledLength(NoteDur(notes_pointer, i), note_tempo)
    /\ RepeatedNotes(notes_pointer) # {} => stopwatch.step * 4 <= ScaledLength(2, note_tempo)

====
